---- MODULE Spec2Model ----
(***************************************************************************)
(* Model of the centroidal trajectory planners of casannis_walking:        *)
(* Walking (src/src/walking.py) and Gait (src/src/gait.py).                *)
(*                                                                         *)
(* Conventions.  Knots, components and vector indices are 0-based as in    *)
(* the Python source; At(s, i) reads element i of a TLA+ sequence.         *)
(* Lengths (CoM state, contact positions) are integers in units of 0.01,   *)
(* forces are integers in N, times are integers in ticks (dt, lift and     *)
(* touch are all given in ticks, so that lift/dt is an exact rational).    *)
(* cs.inf is the integer inf below, larger than every finite value used.   *)
(***************************************************************************)
EXTENDS Integers, Sequences, FiniteSets, TLC

\* ------------------------------------------------------------------ bounds
MaxN == 3          \* horizon lengths 1..MaxN

MaxT == 5          \* lift and touch times range over 0..MaxT ticks

\* ------------------------------------------------------- program constants
dimc == 3

dimx == 3 * dimc

dimu == dimc

dimf == dimc

ncontacts == 4

dimf_tot == ncontacts * dimf

inf == 1000000

com_z_max == 0     \* 0.0  in walking.py line 201

com_z_low == 15    \* 0.15 in walking.py line 202 (negated there)

gait_max_f == 1500

\* --------------------------------------------------------- generic helpers
At(s, i) == s[i + 1]

Max2(a, b) == IF a >= b THEN a ELSE b

RECURSIVE vertcat(_)
\* cs.vertcat(*blocks): the blocks one after the other in a flat vector
vertcat(blocks) ==
    IF blocks = << >> THEN << >> ELSE Head(blocks) \o vertcat(Tail(blocks))

full(n, v) == [i \in 1..n |-> v]

zeros(n) == full(n, 0)

neg(v) == [i \in 1..Len(v) |-> -v[i]]

\* np.array([a, b, c] * n)
tile(v, n) == [i \in 1..(n * Len(v)) |-> v[((i - 1) % Len(v)) + 1]]

\* start/stop of a Python slice on a sequence of length n
slice_bound(i, n) ==
    IF i < 0 THEN (IF i + n < 0 THEN 0 ELSE i + n) ELSE (IF i > n THEN n ELSE i)

slice_len(n, start, stop) ==
    Max2(0, slice_bound(stop, n) - slice_bound(start, n))

\* a[start:stop] = vals on a numpy array: vals must broadcast to the slice
np_slice_fits(a, start, stop, vals) ==
    \/ Len(vals) = 1
    \/ slice_len(Len(a), start, stop) = Len(vals)

np_slice_assign(a, start, stop, vals) ==
    LET lo == slice_bound(start, Len(a))
        n  == slice_len(Len(a), start, stop)
    IN  [i \in 1..Len(a) |->
            IF i > lo /\ i <= lo + n
            THEN (IF Len(vals) = 1 THEN vals[1] ELSE vals[i - lo])
            ELSE a[i]]

\* l[start:stop] = vals on a Python list: the slice is replaced by vals
list_slice_assign(l, start, stop, vals) ==
    LET lo == slice_bound(start, Len(l))
        hi == Max2(lo, slice_bound(stop, Len(l)))
    IN  SubSeq(l, 1, lo) \o vals \o SubSeq(l, hi + 1, Len(l))

\* k >= t / dt and k <= t / dt with true division, for dt > 0
knot_ge(k, t, step) == k * step >= t

knot_le(k, t, step) == k * step <= t

\* ------------------------------------------------------------ scenario data
\* foot_contacts of the __main__ scenario (fl, fr, hl, hr)
foot_contacts ==
    << <<35, 35, -72>>, <<35, -35, -72>>, <<-35, 35, -72>>, <<-35, -35, -72>> >>

X0Set == { <<11, 0, -2, 0, 0, 0, 0, 0, 0>>, <<3, -4, -9, 5, -6, 7, 8, -9, 2>> }

DtSet == {1, 2}

MinFSet == {50, 100}

OffsetSet == { <<10, 0, -5>>, <<10, 5, 3>> }

vadd(a, b) == [i \in 1..Len(a) |-> a[i] + b[i]]

VARIABLES
    cls,        \* "Walking" or "Gait"
    N, dt, mass,
    pc,         \* position of the caller: new, built, loop, final, ready,
                \* solved, returned, raised
    nlp,        \* the constructor's layout: [x, g, p] sequences of symbols
    x0,         \* the caller's initial-state array (the object passed in)
    x_init,     \* its value when solve was called
    contacts, swing_id, swing_tgt, swing_t, min_f, swing_clearance,
    k,          \* loop counter of solve
    Xl, Xu, Ul, Uu, Fl, Fu, gl, gu, P,
    nlpargs,    \* what the solver is handed: [x0, lbx, ubx, lbg, ubg, p]
    status,     \* the solver's return status
    sol,        \* the solver's numeric decision vector
    result,     \* what solve returns
    err,        \* the exception raised, "" when none
    resol,      \* interpolate: samples per tick, the rational <<num, den>>
    solution_in, \* interpolate: the solution dictionary passed in
    ii,         \* interpolate: knot counter of the densification loop
    x_old,      \* interpolate: the state being propagated
    x_all,      \* interpolate: the dense states collected so far
    interp,     \* interpolate: the output being assembled
    spl,        \* splines: the call's arguments and its outcome
    calls       \* the solver service: the arguments of every call so far

vars == <<cls, N, dt, mass, pc, nlp, x0, x_init, contacts, swing_id, swing_tgt,
          swing_t, min_f, swing_clearance, k, Xl, Xu, Ul, Uu, Fl, Fu, gl, gu,
          P, nlpargs, status, sol, result, err, resol, solution_in, ii, x_old,
          x_all, interp, spl, calls>>

ctor_vars == <<cls, N, dt, mass>>

call_vars == <<x_init, contacts, swing_id, swing_tgt, swing_t, min_f,
               swing_clearance>>

list_vars == <<Xl, Xu, Ul, Uu, Fl, Fu, gl, gu, P>>

out_vars  == <<nlpargs, status, sol, result>>

interp_vars == <<resol, solution_in, ii, x_old, x_all, interp, spl>>

post_vars == <<interp_vars, calls>>

\* ------------------------------------------------------------- constructor
sym(name, kk, n) == [i \in 1..n |-> <<name, kk, i - 1>>]

RECURSIVE walking_g_dyn0(_, _)
\* variant: a dynamics constraint is appended at knot 0 as well
walking_g_dyn0(kk, acc) ==
    IF kk <= 0 THEN acc
    ELSE LET j == kk - 1
         IN  walking_g_dyn0(j, acc) \o [i \in 1..dimx |-> <<"dyn", j, i - 1>>]
             \o [i \in 1..dimf |-> <<"newton", j, i - 1>>]
             \o [i \in 1..dimf |-> <<"euler", j, i - 1>>]

RECURSIVE walking_g(_, _)
\* rows appended to g by knots 0..kk-1 of Walking.__init__
walking_g(kk, acc) ==
    IF kk <= 0 THEN acc
    ELSE LET j == kk - 1
             prev == walking_g(j, acc)
             dyn == IF j > 0 THEN sym("dyn", j, dimx) ELSE << >>
         IN  prev \o dyn \o sym("newton", j, dimf) \o sym("euler", j, dimf)

\* variant: the force blocks are stacked before the control blocks
walking_nlp_xfu(n) ==
    [ x |-> vertcat([j \in 1..n |-> sym("x", j - 1, dimx)])
            \o vertcat([j \in 1..n |-> sym("f", j - 1, ncontacts * dimf)])
            \o vertcat([j \in 1..n |-> sym("u", j - 1, dimu)]),
      g |-> walking_g(n, << >>),
      p |-> vertcat([j \in 1..n |-> sym("p", j - 1, ncontacts * dimc)]) ]

walking_nlp(n) ==
    [ x |-> vertcat([j \in 1..n |-> sym("x", j - 1, dimx)])
            \o vertcat([j \in 1..n |-> sym("u", j - 1, dimu)])
            \o vertcat([j \in 1..n |-> sym("f", j - 1, ncontacts * dimf)]),
      g |-> walking_g(n, << >>),
      p |-> vertcat([j \in 1..n |-> sym("p", j - 1, ncontacts * dimc)]) ]

WalkingConstruct ==
    /\ pc = "new" /\ cls = "Walking"
    /\ nlp' = walking_nlp(N)
    /\ pc' = "built"
    /\ UNCHANGED <<post_vars, ctor_vars, x0, call_vars, k, list_vars, out_vars, err>>

\* -------------------------------------------------------- Walking.solve
\* variant: the bound lists live on from the previous call
WalkingSolveBegin_keep ==
    /\ pc = "built" /\ cls = "Walking"
    /\ k' = 0
    /\ pc' = IF N > 0 THEN "loop" ELSE "final"
    /\ UNCHANGED <<post_vars, ctor_vars, nlp, x0, call_vars, list_vars,
                   out_vars, err>>

WalkingSolveBegin ==
    /\ pc = "built" /\ cls = "Walking"
    /\ Xl' = << >> /\ Xu' = << >> /\ Ul' = << >> /\ Uu' = << >>
    /\ Fl' = << >> /\ Fu' = << >> /\ gl' = << >> /\ gu' = << >> /\ P' = << >>
    /\ k' = 0
    /\ pc' = IF N > 0 THEN "loop" ELSE "final"
    /\ UNCHANGED <<post_vars, ctor_vars, nlp, x0, call_vars, out_vars, err>>

\* variant: the state is not bounded at all (the commented-out line 196)
walking_x_max_free == full(dimx, inf)

\* state bounds of knot kk > 0
walking_x_max == <<inf, inf, com_z_max>> \o full(6, inf)

walking_x_min == neg(<<inf, inf, com_z_low>> \o full(6, inf))

\* variant: knot 0 is bounded like every other knot
walking_x_bounds_free(kk, init) ==
    [max |-> walking_x_max, min |-> walking_x_min]

\* x_max, x_min of knot kk: the x0 array at knot 0, fresh arrays afterwards
walking_x_bounds(kk, init) ==
    IF kk = 0 THEN [max |-> init, min |-> init]
    ELSE [max |-> walking_x_max, min |-> walking_x_min]

\* variant: the minimum force bounds all three components
walking_f_min_all(mf) == full(dimf * ncontacts, mf)

walking_f_min(mf) == tile(<<-inf, -inf, mf>>, ncontacts)

walking_f_max == full(dimf * ncontacts, inf)

\* variant: the touch-down knot is left out of the swing window
walking_is_swing_open(kk) ==
    knot_ge(kk, swing_t[1], dt) /\ kk * dt < swing_t[2]

\* variant: lift and touch are first truncated to knot indices
walking_is_swing_floor(kk) ==
    kk >= swing_t[1] \div dt /\ kk <= swing_t[2] \div dt

\* is_swing = k >= swing_t[0]/self._dt and k <= swing_t[1]/self._dt
walking_is_swing(kk) ==
    knot_ge(kk, swing_t[1], dt) /\ knot_le(kk, swing_t[2], dt)

\* variant: the lift time is compared to the knot index without dividing by dt
walking_after_lift_ticks(kk) == kk >= swing_t[1]

\* if k >= swing_t[0]/self._dt: the swing foot's parameter is swing_tgt
walking_after_lift(kk) == knot_ge(kk, swing_t[1], dt)

\* the slice assignments of knot kk that numpy accepts
walking_knot_ok(kk) ==
    /\ walking_is_swing(kk) =>
          np_slice_fits(walking_f_max, 3 * swing_id, 3 * (swing_id + 1),
                        zeros(dimf))
    /\ walking_after_lift(kk) =>
          np_slice_fits(vertcat(contacts), 3 * swing_id, 3 * (swing_id + 1),
                        swing_tgt)

WalkingKnot ==
    /\ pc = "loop" /\ cls = "Walking"
    /\ walking_knot_ok(k)
    /\ LET x_max == walking_x_bounds(k, x0).max
           x_min == walking_x_bounds(k, x0).min
           u_max == full(dimu, inf)
           u_min == neg(u_max)
           f_max0 == walking_f_max
           f_min0 == walking_f_min(min_f)
           is_swing == walking_is_swing(k)
           f_max == IF is_swing
                    THEN np_slice_assign(f_max0, 3 * swing_id,
                                         3 * (swing_id + 1), zeros(dimf))
                    ELSE f_max0
           f_min == IF is_swing
                    THEN np_slice_assign(f_min0, 3 * swing_id,
                                         3 * (swing_id + 1), zeros(dimf))
                    ELSE f_min0
           p_k0 == vertcat(contacts)
           p_k == IF walking_after_lift(k)
                  THEN np_slice_assign(p_k0, 3 * swing_id, 3 * (swing_id + 1),
                                       swing_tgt)
                  ELSE p_k0
           dynb == IF k > 0 THEN <<zeros(dimx)>> ELSE << >>
       IN  /\ Xu' = Append(Xu, x_max)
           /\ Xl' = Append(Xl, x_min)
           /\ Uu' = Append(Uu, u_max)
           /\ Ul' = Append(Ul, u_min)
           /\ Fl' = Append(Fl, f_min)
           /\ Fu' = Append(Fu, f_max)
           /\ P' = Append(P, p_k)
           /\ gl' = gl \o dynb \o <<zeros(6)>>
           /\ gu' = gu \o dynb \o <<zeros(6)>>
    /\ k' = k + 1
    /\ pc' = IF k + 1 < N THEN "loop" ELSE "final"
    /\ UNCHANGED <<post_vars, ctor_vars, nlp, x0, call_vars, out_vars, err>>

\* a slice assignment of knot k that numpy refuses: ValueError, solve ends
WalkingKnotRaise ==
    /\ pc = "loop" /\ cls = "Walking"
    /\ ~walking_knot_ok(k)
    /\ err' = "ValueError"
    /\ pc' = "raised"
    /\ UNCHANGED <<post_vars, ctor_vars, nlp, x0, call_vars, k, list_vars, out_vars>>

\* Xl[-1][3:] = 0 ; Xu[-1][3:] = 0 ; v0 ; vertcat of bounds and parameters.
\* With N = 1 the last block of Xl and of Xu is the caller's x0 array itself
\* (x_max = x0, x_min = x0 at knot 0), so the assignment writes through to it.
\* variant: only the acceleration is zeroed at the final knot
pin_tail_acc(block) == np_slice_assign(block, 6, Len(block), <<0>>)

pin_tail(block) == np_slice_assign(block, 3, Len(block), <<0>>)

WalkingFinal ==
    /\ pc = "final" /\ cls = "Walking"
    /\ N >= 1
    /\ LET Xl1 == [Xl EXCEPT ![N] = pin_tail(Xl[N])]
           Xu1 == IF N = 1 THEN <<pin_tail(Xl1[1])>>
                  ELSE [Xu EXCEPT ![N] = pin_tail(Xu[N])]
           Xl2 == IF N = 1 THEN Xu1 ELSE Xl1
       IN  /\ Xl' = Xl2
           /\ Xu' = Xu1
           /\ x0' = IF N = 1 THEN Xu1[1] ELSE x0
           /\ nlpargs' = [ x0  |-> zeros(Len(nlp.x)),
                           lbx |-> vertcat(Xl2) \o vertcat(Ul) \o vertcat(Fl),
                           ubx |-> vertcat(Xu1) \o vertcat(Uu) \o vertcat(Fu),
                           lbg |-> vertcat(gl),
                           ubg |-> vertcat(gu),
                           p   |-> vertcat(P) ]
    /\ pc' = "ready"
    /\ UNCHANGED <<post_vars, ctor_vars, nlp, call_vars, k, Ul, Uu, Fl, Fu, gl, gu, P,
                   status, sol, result, err>>

\* ------------------------------------------------------- Gait.__init__
\* constraints.newton_euler_constraint: 3 Newton and 3 Euler residuals
newton_euler_constraint(kk) ==
    [newton |-> sym("newton", kk, 3), euler |-> sym("euler", kk, 3)]

\* constraints.state_constraint: integrator(x_old, u_old, dt) - x_curr
state_constraint(kk) == sym("dyn", kk, dimx)

RECURSIVE gait_g(_, _)
\* rows appended to g by knots 0..kk-1 of Gait.__init__
gait_g(kk, acc) ==
    IF kk <= 0 THEN acc
    ELSE LET j == kk - 1
             prev == gait_g(j, acc)
             ne == newton_euler_constraint(j)
             dyn == IF j > 0 THEN state_constraint(j) ELSE << >>
         IN  prev \o ne.newton \o ne.euler \o dyn

\* X, U, F are one symbol vector each; knot kk uses X[kk*dimx:(kk+1)*dimx]
gait_nlp(n) ==
    [ x |-> sym("X", 0, n * dimx) \o sym("U", 0, n * dimu)
            \o sym("F", 0, n * (ncontacts * dimf)),
      g |-> gait_g(n, << >>),
      p |-> vertcat([j \in 1..n |-> sym("p", j - 1, ncontacts * dimc)]) ]

GaitConstruct ==
    /\ pc = "new" /\ cls = "Gait"
    /\ nlp' = gait_nlp(N)
    /\ pc' = "built"
    /\ UNCHANGED <<post_vars, ctor_vars, x0, call_vars, k, list_vars, out_vars, err>>

\* ----------------------------------------------------------- Gait.solve
step_num == Len(swing_id)

\* 0.5 * (x[0] + x[1]) for x in swing_t, as the rational <<num, den>>
clearance_times == [i \in 1..Len(swing_t) |-> <<swing_t[i][1] + swing_t[i][2], 2>>]

\* swing feet positions at maximum clearance
clearance_swing_position ==
    [i \in 1..step_num |->
        LET cur == At(contacts, swing_id[i])
        IN  IF cur[3] >= swing_tgt[i][3]
            THEN SubSeq(cur, 1, 2) \o <<cur[3] + swing_clearance>>
            ELSE SubSeq(cur, 1, 2) \o <<swing_tgt[i][3] + swing_clearance>>]

GaitSolveBegin ==
    /\ pc = "built" /\ cls = "Gait"
    /\ Xl' = zeros(dimx * N) /\ Xu' = zeros(dimx * N)
    /\ Ul' = zeros(dimu * N) /\ Uu' = zeros(dimu * N)
    /\ Fl' = zeros(dimf_tot * N) /\ Fu' = zeros(dimf_tot * N)
    /\ gl' = << >> /\ gu' = << >> /\ P' = << >>
    /\ k' = 0
    /\ pc' = IF N > 0 THEN "loop" ELSE "final"
    /\ UNCHANGED <<post_vars, ctor_vars, nlp, x0, call_vars, out_vars, err>>

\* constraints.bound_state_variables(x0, [min, max], k)
bound_state_variables(init, bnds, kk) ==
    IF kk = 0 THEN [min |-> init, max |-> init]
    ELSE [min |-> bnds[1], max |-> bnds[2]]

RECURSIVE swing_forces(_, _, _, _, _, _)
\* zero the force bounds of every scheduled leg that swings at knot kk
swing_forces(f, kk, sw_t, sw_id, step, i) ==
    IF i > Len(sw_id) THEN f
    ELSE LET in_swing == knot_ge(kk, sw_t[i][1], step)
                         /\ knot_le(kk, sw_t[i][2], step)
             f1 == IF in_swing
                   THEN np_slice_assign(f, 3 * sw_id[i], 3 * (sw_id[i] + 1),
                                        zeros(3))
                   ELSE f
         IN  swing_forces(f1, kk, sw_t, sw_id, step, i + 1)

\* constraints.bound_force_variables(min_f, max_f, k, swing_t, swing_id, ...)
bound_force_variables(min_fz, max_fz, kk, sw_t, sw_id, nc, step, steps) ==
    [ min |-> swing_forces(tile(<<-inf, -inf, min_fz>>, nc), kk, sw_t, sw_id,
                           step, 1),
      max |-> swing_forces(tile(<<inf, inf, max_fz>>, nc), kk, sw_t, sw_id,
                           step, 1) ]

RECURSIVE swing_params(_, _, _, _, _, _, _)
swing_params(p, kk, sw_id, sw_tgt, apex, step, i) ==
    IF i > Len(sw_id) THEN p
    ELSE LET lo == 3 * sw_id[i]
             p1 == IF ~knot_ge(kk, swing_t[i][1], step) THEN p
                   ELSE IF knot_le(kk, swing_t[i][2], step)
                        THEN np_slice_assign(p, lo, lo + 3, apex[i])
                        ELSE np_slice_assign(p, lo, lo + 3, sw_tgt[i])
         IN  swing_params(p1, kk, sw_id, sw_tgt, apex, step, i + 1)

\* constraints.set_contact_parameters(contacts, swing_id, swing_tgt,
\* clearance_times, clearance_swing_position, k, dt): current position before
\* the lift, the clearance position during the window, the target after it
set_contact_parameters(cont, sw_id, sw_tgt, cl_times, cl_pos, kk, step) ==
    swing_params(vertcat(cont), kk, sw_id, sw_tgt, cl_pos, step, 1)

GaitKnot ==
    /\ pc = "loop" /\ cls = "Gait"
    /\ LET x_slice1 == k * dimx
           x_slice2 == (k + 1) * dimx
           u_slice1 == k * dimu
           u_slice2 == (k + 1) * dimu
           f_slice1 == k * dimf_tot
           f_slice2 == (k + 1) * dimf_tot
           state_bounds == bound_state_variables(
                               x0, <<full(9, -inf), full(9, inf)>>, k)
           u_max == full(dimu, inf)
           u_min == neg(u_max)
           force_bounds == bound_force_variables(
                               min_f, gait_max_f, k, swing_t, swing_id,
                               ncontacts, dt, step_num)
           contact_params == set_contact_parameters(
                               contacts, swing_id, swing_tgt, clearance_times,
                               clearance_swing_position, k, dt)
           dynb == IF k > 0 THEN <<zeros(dimx)>> ELSE << >>
       IN  /\ Xu' = list_slice_assign(Xu, x_slice1, x_slice2, state_bounds.max)
           /\ Xl' = list_slice_assign(Xl, x_slice1, x_slice2, state_bounds.min)
           /\ Uu' = list_slice_assign(Uu, u_slice1, u_slice2, u_max)
           /\ Ul' = list_slice_assign(Ul, u_slice1, u_slice2, u_min)
           /\ Fu' = list_slice_assign(Fu, f_slice1, f_slice2, force_bounds.max)
           /\ Fl' = list_slice_assign(Fl, f_slice1, f_slice2, force_bounds.min)
           /\ P' = Append(P, contact_params)
           /\ gl' = gl \o dynb \o <<zeros(6)>>
           /\ gu' = gu \o dynb \o <<zeros(6)>>
    /\ k' = k + 1
    /\ pc' = IF k + 1 < N THEN "loop" ELSE "final"
    /\ UNCHANGED <<post_vars, ctor_vars, nlp, x0, call_vars, out_vars, err>>

\* Xl[-6:] = zeros ; Xu[-6:] = zeros ; v0 ; vertcat of bounds and parameters
GaitFinal ==
    /\ pc = "final" /\ cls = "Gait"
    /\ LET Xl1 == list_slice_assign(Xl, -6, Len(Xl), zeros(6))
           Xu1 == list_slice_assign(Xu, -6, Len(Xu), zeros(6))
       IN  /\ Xl' = Xl1
           /\ Xu' = Xu1
           /\ nlpargs' = [ x0  |-> zeros(Len(nlp.x)),
                           lbx |-> Xl1 \o Ul \o Fl,
                           ubx |-> Xu1 \o Uu \o Fu,
                           lbg |-> vertcat(gl),
                           ubg |-> vertcat(gu),
                           p   |-> vertcat(P) ]
    /\ pc' = "ready"
    /\ UNCHANGED <<post_vars, ctor_vars, nlp, x0, call_vars, k, Ul, Uu, Fl, Fu, gl, gu, P,
                   status, sol, result, err>>

\* evaluate(sol['x'], cs.horzcat(block)) flattened: the block's values at sol
gait_evaluate(solution, first, len) == SubSeq(solution, first + 1, first + len)

GaitReturn ==
    /\ pc = "solved" /\ cls = "Gait"
    /\ result' = [ x |-> gait_evaluate(sol, 0, N * dimx),
                   F |-> gait_evaluate(sol, N * dimx + N * dimu,
                                       N * dimf_tot),
                   u |-> gait_evaluate(sol, N * dimx, N * dimu) ]
    /\ pc' = "returned"
    /\ UNCHANGED <<post_vars, ctor_vars, nlp, x0, call_vars, k, list_vars, nlpargs,
                   status, sol, err>>

\* ---------------------------------------------------------- solver service
\* The solver is opaque: it returns some decision vector and a status.
solver_vector(seed, n) == [i \in 1..n |-> ((seed * i) % 7) - seed]

CallSolver ==
    /\ pc = "ready"
    /\ \E st \in {"Solve_Succeeded", "Infeasible_Problem_Detected"}, seed \in {3} :
          /\ status' = st
          /\ sol' = solver_vector(seed, Len(nlp.x))
    /\ calls' = Append(calls, nlpargs)
    /\ pc' = "solved"
    /\ UNCHANGED <<interp_vars, ctor_vars, nlp, x0, call_vars, k, list_vars, nlpargs,
                   result, err>>

\* evaluate(sol['x'], cs.horzcat(*blocks)): column kk is block kk at sol
walking_evaluate(solution, first, width) ==
    [j \in 1..N |-> SubSeq(solution, first + (j - 1) * width + 1,
                           first + j * width)]

WalkingReturn ==
    /\ pc = "solved" /\ cls = "Walking"
    /\ result' = [ x |-> walking_evaluate(sol, 0, dimx),
                   F |-> walking_evaluate(sol, N * dimx + N * dimu,
                                          ncontacts * dimf),
                   u |-> walking_evaluate(sol, N * dimx, dimu) ]
    /\ pc' = "returned"
    /\ UNCHANGED <<post_vars, ctor_vars, nlp, x0, call_vars, k, list_vars, nlpargs,
                   status, sol, err>>

\* ===================================================== layout and accessors
\* the symbol of component i of knot kk's state ("x"), control ("u") or force
\* ("f") block, as the constructor of the class slices it
walking_var(kind, kk, i) == <<kind, kk, i>>

gait_var(kind, kk, i) ==
    IF kind = "x" THEN <<"X", 0, kk * dimx + i>>
    ELSE IF kind = "u" THEN <<"U", 0, kk * dimu + i>>
    ELSE <<"F", 0, kk * dimf_tot + i>>

knot_var(kind, kk, i) ==
    IF cls = "Walking" THEN walking_var(kind, kk, i) ELSE gait_var(kind, kk, i)

\* 0-based index of a symbol in the decision vector / parameter vector
index_in(vec, s) == (CHOOSE j \in 1..Len(vec) : vec[j] = s) - 1

handed == pc \in {"ready", "solved", "returned"}

\* bounds handed to the solver for component i of knot kk's block
lb(kind, kk, i) == At(nlpargs.lbx, index_in(nlp.x, knot_var(kind, kk, i)))

ub(kind, kk, i) == At(nlpargs.ubx, index_in(nlp.x, knot_var(kind, kk, i)))

\* parameter value handed to the solver for coordinate j of contact c, knot kk
par(kk, c, j) == At(nlpargs.p, index_in(nlp.p, <<"p", kk, 3 * c + j>>))

Knots == 0..(N - 1)

Legs == 0..(ncontacts - 1)

\* ------------------------------------------------------------------ claims
\* C1: in Walking.solve, at every knot k with lift <= k*dt <= touch the lower
\* and upper bounds of the three force components of the swing leg are 0; at
\* every other knot the swing leg's z lower bound is min_f, and every other
\* leg's z lower bound is min_f at every knot.
C1_SwingForcePinned ==
    (handed /\ cls = "Walking") =>
        \A kk \in Knots :
            /\ IF swing_t[1] <= kk * dt /\ kk * dt <= swing_t[2]
               THEN \A j \in 0..2 : /\ lb("f", kk, 3 * swing_id + j) = 0
                                    /\ ub("f", kk, 3 * swing_id + j) = 0
               ELSE lb("f", kk, 3 * swing_id + 2) = min_f
            /\ \A c \in Legs \ {swing_id} : lb("f", kk, 3 * c + 2) = min_f

C1_Witness ==
    /\ handed /\ cls = "Walking" /\ min_f = 100
    /\ \E kk \in Knots : swing_t[1] <= kk * dt /\ kk * dt <= swing_t[2]
    /\ \E kk \in Knots : kk * dt > swing_t[2]
    /\ \E kk \in Knots : kk * dt < swing_t[1]

\* C2: in Walking.solve the swing leg's contact parameter is its current
\* contact position at every knot with k*dt < lift and the target at every
\* knot with k*dt > touch; the other three legs keep their given contact
\* position at every knot.
C2_ContactParams ==
    (handed /\ cls = "Walking") =>
        \A kk \in Knots : \A j \in 0..2 :
            /\ kk * dt < swing_t[1] =>
                  par(kk, swing_id, j) = At(At(contacts, swing_id), j)
            /\ kk * dt > swing_t[2] =>
                  par(kk, swing_id, j) = At(swing_tgt, j)
            /\ \A c \in Legs \ {swing_id} :
                  par(kk, c, j) = At(At(contacts, c), j)

C2_Witness ==
    /\ handed /\ cls = "Walking" /\ dt = 2
    /\ \E kk \in Knots : kk * dt < swing_t[1]
    /\ \E kk \in Knots : kk * dt > swing_t[2]

\* C3 as stated: for every N >= 1 the state bounds of knot 0 are
\* lower = upper = x0 (the initial state given to solve) in all 9 components.
C3_Original ==
    handed => \A i \in 0..(dimx - 1) :
                 /\ lb("x", 0, i) = At(x_init, i)
                 /\ ub("x", 0, i) = At(x_init, i)

\* C3 amended: for every N >= 2 the state bounds of knot 0 are lower = upper
\* = x0 in all 9 components; for N = 1 knot 0 is also the final knot and only
\* the 3 position components are pinned to x0, the velocity and acceleration
\* bounds being 0. In Walking and in Gait.
C3_Knot0Pinned ==
    handed => \A i \in 0..(dimx - 1) :
                 LET v == IF N = 1 /\ i >= 3 THEN 0 ELSE At(x_init, i)
                 IN  lb("x", 0, i) = v /\ ub("x", 0, i) = v

C3_Witness ==
    /\ handed /\ N >= 2 /\ At(x_init, 4) # 0
    /\ lb("x", 0, 4) = At(x_init, 4)

\* C4 as stated: at the final knot the bounds of the 3 velocity and the 3
\* acceleration components are 0 and the 3 position components are free.
C4_Original ==
    handed =>
        /\ \A i \in 3..8 : lb("x", N - 1, i) = 0 /\ ub("x", N - 1, i) = 0
        /\ \A i \in 0..2 : lb("x", N - 1, i) = -inf /\ ub("x", N - 1, i) = inf

\* C4 amended: at the final knot the velocity and acceleration bounds are 0
\* for every N >= 1; for N >= 2 the CoM x and y bounds are -inf/+inf, and the
\* CoM z bounds are -inf/+inf in Gait but -0.15/0.0 in Walking; for N = 1 the
\* position bounds are those of knot 0, i.e. x0.
C4_FinalKnot ==
    handed =>
        /\ \A i \in 3..8 : lb("x", N - 1, i) = 0 /\ ub("x", N - 1, i) = 0
        /\ N >= 2 =>
              /\ \A i \in 0..1 : /\ lb("x", N - 1, i) = -inf
                                 /\ ub("x", N - 1, i) = inf
              /\ lb("x", N - 1, 2) = (IF cls = "Walking" THEN -com_z_low ELSE -inf)
              /\ ub("x", N - 1, 2) = (IF cls = "Walking" THEN com_z_max ELSE inf)
        /\ N = 1 =>
              \A i \in 0..2 : /\ lb("x", 0, i) = At(x_init, i)
                              /\ ub("x", 0, i) = At(x_init, i)

C4_Witness ==
    /\ handed /\ cls = "Walking" /\ N >= 2
    /\ ub("x", N - 1, 2) = 0 /\ ub("x", N - 1, 3) = 0 /\ ub("x", N - 1, 0) = inf

\* C5 as stated: in Walking every interior knot 0 < k < N-1 has all 9 state
\* components unbounded.
C5_Original ==
    (handed /\ cls = "Walking") =>
        \A kk \in 1..(N - 2) : \A i \in 0..(dimx - 1) :
            lb("x", kk, i) = -inf /\ ub("x", kk, i) = inf

\* C5 amended: in Walking every interior knot 0 < k < N-1 has all state
\* components unbounded except the CoM z position (component 2), which is
\* bounded by -0.15 <= z <= 0.0.
C5_InteriorKnots ==
    (handed /\ cls = "Walking") =>
        \A kk \in 1..(N - 2) : \A i \in 0..(dimx - 1) :
            IF i = 2
            THEN lb("x", kk, i) = -com_z_low /\ ub("x", kk, i) = com_z_max
            ELSE lb("x", kk, i) = -inf /\ ub("x", kk, i) = inf

C5_Witness ==
    /\ handed /\ cls = "Walking" /\ N >= 3
    /\ lb("x", 1, 2) = -com_z_low /\ ub("x", 1, 5) = inf

\* contact c is scheduled to swing at knot kk
in_swing(kk, c) ==
    IF cls = "Walking"
    THEN c = swing_id /\ swing_t[1] <= kk * dt /\ kk * dt <= swing_t[2]
    ELSE \E i \in 1..Len(swing_id) :
            /\ swing_id[i] = c
            /\ swing_t[i][1] <= kk * dt /\ kk * dt <= swing_t[i][2]

\* C6 as stated: for every knot and every contact not in its swing window,
\* min_f <= f_z <= 1500 and f_x, f_y are unbounded, in Walking and in Gait.
C6_Original ==
    handed =>
        \A kk \in Knots : \A c \in Legs :
            ~in_swing(kk, c) =>
                /\ lb("f", kk, 3 * c + 2) = min_f
                /\ ub("f", kk, 3 * c + 2) = gait_max_f
                /\ \A j \in 0..1 : /\ lb("f", kk, 3 * c + j) = -inf
                                   /\ ub("f", kk, 3 * c + j) = inf

\* C6 amended: for every knot and every contact not in its swing window the
\* lower bound of f_z is min_f and f_x, f_y are unbounded on both sides; the
\* upper bound of f_z is 1500 in Gait.solve and +infinity (no maximum force)
\* in Walking.solve.
C6_StanceForceBounds ==
    handed =>
        \A kk \in Knots : \A c \in Legs :
            ~in_swing(kk, c) =>
                /\ lb("f", kk, 3 * c + 2) = min_f
                /\ ub("f", kk, 3 * c + 2) =
                      (IF cls = "Walking" THEN inf ELSE gait_max_f)
                /\ \A j \in 0..1 : /\ lb("f", kk, 3 * c + j) = -inf
                                   /\ ub("f", kk, 3 * c + j) = inf

C6_Witness ==
    /\ handed /\ cls = "Walking" /\ N >= 2
    /\ in_swing(0, swing_id) /\ ~in_swing(1, swing_id)
    /\ ub("f", 1, 3 * swing_id + 2) = inf

\* the bound solve wrote for component i of knot kk's block in its loop
written(lists, width, kk, i) ==
    IF cls = "Walking" THEN At(At(lists, kk), i) ELSE At(lists, kk * width + i)

\* C7: the decision vector has 24N entries, the bound vectors have the same
\* length, and for every knot k the state/control/force variables of knot k
\* and the bounds solve wrote for them sit at the same indices: state at
\* 9k.., control at 9N+3k.., force at 12N+12k.., in Walking and in Gait.
C7_Layout ==
    handed =>
        /\ Len(nlp.x) = 24 * N
        /\ Len(nlpargs.lbx) = 24 * N /\ Len(nlpargs.ubx) = 24 * N
        /\ Len(nlpargs.x0) = 24 * N
        /\ \A kk \in Knots :
              /\ \A i \in 0..8 :
                    /\ index_in(nlp.x, knot_var("x", kk, i)) = 9 * kk + i
                    /\ At(nlpargs.lbx, 9 * kk + i) = written(Xl, dimx, kk, i)
                    /\ At(nlpargs.ubx, 9 * kk + i) = written(Xu, dimx, kk, i)
              /\ \A i \in 0..2 :
                    /\ index_in(nlp.x, knot_var("u", kk, i)) = 9 * N + 3 * kk + i
                    /\ At(nlpargs.lbx, 9 * N + 3 * kk + i) = written(Ul, dimu, kk, i)
                    /\ At(nlpargs.ubx, 9 * N + 3 * kk + i) = written(Uu, dimu, kk, i)
              /\ \A i \in 0..11 :
                    /\ index_in(nlp.x, knot_var("f", kk, i)) = 12 * N + 12 * kk + i
                    /\ At(nlpargs.lbx, 12 * N + 12 * kk + i) = written(Fl, dimf_tot, kk, i)
                    /\ At(nlpargs.ubx, 12 * N + 12 * kk + i) = written(Fu, dimf_tot, kk, i)

C7_Witness ==
    /\ handed /\ N = MaxN /\ Len(nlp.x) = 24 * MaxN
    /\ At(nlpargs.lbx, 12 * N + 12 * (N - 1) + 2) \in {0, min_f}

rows(name) == {j \in 1..Len(nlp.g) : nlp.g[j][1] = name}

\* C8: the constraint vector has 3 Newton and 3 Euler rows for every knot and
\* 9 dynamics rows for every knot k > 0, 15N - 9 rows in all; the constraint
\* lower and upper bound vectors have that length and are zero everywhere.
C8_ConstraintRows ==
    /\ pc # "new" =>
          /\ Len(nlp.g) = 15 * N - 9
          /\ \A kk \in Knots :
                /\ Cardinality({j \in rows("newton") : nlp.g[j][2] = kk}) = 3
                /\ Cardinality({j \in rows("euler") : nlp.g[j][2] = kk}) = 3
                /\ Cardinality({j \in rows("dyn") : nlp.g[j][2] = kk})
                      = (IF kk > 0 THEN 9 ELSE 0)
    /\ handed =>
          /\ Len(nlpargs.lbg) = Len(nlp.g) /\ Len(nlpargs.ubg) = Len(nlp.g)
          /\ \A j \in 1..Len(nlpargs.lbg) :
                nlpargs.lbg[j] = 0 /\ nlpargs.ubg[j] = 0

C8_Witness ==
    /\ handed /\ N = MaxN /\ Len(nlpargs.lbg) = 15 * MaxN - 9
    /\ rows("dyn") # {}

\* C9: when the solver reports an infeasible or non-converged status, solve
\* returns a tagged failure (status and diagnostic) and no state/force/control
\* trajectory.
C9_FailureReported ==
    (pc = "returned" /\ status # "Solve_Succeeded") =>
        /\ "status" \in DOMAIN result
        /\ DOMAIN result \cap {"x", "F", "u"} = {}

\* C10: Walking.solve with a swing leg index outside {0,1,2,3} is rejected:
\* no force bound and no contact parameter of any leg is overwritten and the
\* solver is not called.
C10_BadLegRejected ==
    (cls = "Walking" /\ swing_id \notin Legs) =>
        /\ pc \notin {"solved", "returned"}
        /\ pc \in {"loop", "final", "ready"} =>
              /\ \A j \in 1..Len(Fl) : Fl[j] = walking_f_min(min_f)
              /\ \A j \in 1..Len(Fu) : Fu[j] = walking_f_max
              /\ \A j \in 1..Len(P) : P[j] = vertcat(contacts)

\* the force bounds of the swing leg are pinned to zero at knot kk
pinned(kk) ==
    \A j \in 0..2 : /\ lb("f", kk, 3 * swing_id + j) = 0
                    /\ ub("f", kk, 3 * swing_id + j) = 0

\* C13 as stated: in Walking.solve the knots at which the swing leg's force
\* is pinned to zero are exactly those with floor(lift/dt) <= k <=
\* floor(touch/dt).
C13_Original ==
    (handed /\ cls = "Walking") =>
        \A kk \in Knots :
            pinned(kk) <=> (swing_t[1] \div dt <= kk /\ kk <= swing_t[2] \div dt)

\* C13 amended: the swing window is not truncated to knot indices; the knots
\* at which the swing leg's force is pinned to zero are exactly those with
\* lift/dt <= k <= touch/dt, i.e. ceil(lift/dt) <= k <= floor(touch/dt): a
\* lift time off the dt grid is rounded up, a touch time is rounded down.
C13_WindowKnots ==
    (handed /\ cls = "Walking") =>
        \A kk \in Knots :
            pinned(kk) <=> /\ (swing_t[1] + dt - 1) \div dt <= kk
                           /\ kk <= swing_t[2] \div dt

C13_Witness ==
    /\ handed /\ cls = "Walking"
    /\ swing_t[1] % dt # 0 /\ swing_t[2] % dt # 0
    /\ swing_t[1] \div dt \in Knots /\ ~pinned(swing_t[1] \div dt)
    /\ \E kk \in Knots : pinned(kk)

\* ------------------------------------------------------------------- Init
NoValue == << >>

\* interpolate and splines have not been called
PostIdle ==
    /\ resol = <<1, 1>> /\ solution_in = NoValue /\ ii = 0
    /\ x_old = NoValue /\ x_all = << >> /\ interp = NoValue /\ spl = NoValue
    /\ calls = << >>

InitCommon ==
    /\ pc = "new"
    /\ nlp = [x |-> << >>, g |-> << >>, p |-> << >>]
    /\ mass = 95
    /\ dt \in DtSet
    /\ x0 \in X0Set
    /\ x_init = x0
    /\ contacts = foot_contacts
    /\ min_f \in MinFSet
    /\ k = 0
    /\ Xl = << >> /\ Xu = << >> /\ Ul = << >> /\ Uu = << >>
    /\ Fl = << >> /\ Fu = << >> /\ gl = << >> /\ gu = << >> /\ P = << >>
    /\ nlpargs = NoValue
    /\ status = "" /\ sol = << >> /\ result = NoValue /\ err = ""
    /\ PostIdle

Windows == {w \in (0..MaxT) \X (0..MaxT) : w[1] <= w[2]}

InitWalking(ids) ==
    /\ cls = "Walking"
    /\ N \in 1..MaxN
    /\ swing_id \in ids
    /\ \E off \in OffsetSet :
          swing_tgt = vadd(At(foot_contacts, swing_id % ncontacts), off)
    /\ swing_t \in Windows
    /\ swing_clearance = 0
    /\ InitCommon

ClearanceSet == {5}

InitGait ==
    /\ cls = "Gait"
    /\ N \in 1..MaxN
    /\ swing_id \in { <<0>>, <<1, 2>> }
    /\ \E off \in OffsetSet :
          swing_tgt = [i \in 1..Len(swing_id) |->
                          vadd(At(foot_contacts, swing_id[i]), off)]
    /\ \E w \in Windows :
          swing_t = [i \in 1..Len(swing_id) |->
                        IF i = 1 THEN w ELSE <<w[1] + 1, w[2] + 2>>]
    /\ swing_clearance \in ClearanceSet
    /\ InitCommon

Init == InitWalking(0..3) \/ InitGait

\* the same planners, called with any integer as the swing leg index
InitAny == InitWalking(-5..5) \/ InitGait

\* ------------------------------------------------------ exact arithmetic
\* Real numbers of the post-processing code are modelled as exact fractions
\* <<numerator, denominator>> in lowest terms with a positive denominator.
\* a function over 1..n as a list of computed values
seq(f) == << >> \o f

RECURSIVE GCD(_, _)

GCD(a, b) == IF b = 0 THEN a ELSE GCD(b, a % b)

Abs(a) == IF a < 0 THEN -a ELSE a

Rat(n, d) ==
    LET g == GCD(Abs(n), Abs(d))
        sgn == IF d < 0 THEN -1 ELSE 1
    IN  <<sgn * (n \div g), sgn * (d \div g)>>

R(n) == <<n, 1>>

RAdd(a, b) ==
    LET g == GCD(a[2], b[2])
    IN  Rat(a[1] * (b[2] \div g) + b[1] * (a[2] \div g), (a[2] \div g) * b[2])

RSub(a, b) == RAdd(a, <<-b[1], b[2]>>)

RMul(a, b) ==
    LET g1 == GCD(Abs(a[1]), b[2])
        g2 == GCD(Abs(b[1]), a[2])
    IN  IF a[1] = 0 \/ b[1] = 0 THEN <<0, 1>>
        ELSE <<(a[1] \div g1) * (b[1] \div g2), (a[2] \div g2) * (b[2] \div g1)>>

RDiv(a, b) == RMul(a, Rat(b[2], b[1]))

RLt(a, b) == a[1] * b[2] < b[1] * a[2]

RLe(a, b) == a[1] * b[2] <= b[1] * a[2]

RECURSIVE RPow(_, _)

RPow(a, n) == IF n = 0 THEN <<1, 1>> ELSE RMul(a, RPow(a, n - 1))

\* int(): truncation toward zero
RInt(a) == IF a[1] >= 0 THEN a[1] \div a[2] ELSE -((-a[1]) \div a[2])

RECURSIVE RSum(_)

RSum(s) == IF s = << >> THEN <<0, 1>> ELSE RAdd(s[1], RSum(Tail(s)))

\* ------------------------------------------------------- Walking.splines
\* the casadi Functions p, dp and ddp: the quintic and its two derivatives,
\* each taking the time and the coefficients it depends on
p(t, a) == RSum([i \in 1..6 |-> RMul(a[i], RPow(t, i - 1))])

dp(t, a) == RSum([i \in 1..5 |-> RMul(R(i), RMul(a[i], RPow(t, i - 1)))])

ddp(t, a) ==
    RSum([i \in 1..4 |-> RMul(R(i * (i + 1)), RMul(a[i], RPow(t, i - 1)))])

\* the argument list (0, .., 1, .., 0) selecting one coefficient
unit(n, j) == seq([i \in 1..n |-> IF i = j THEN R(1) ELSE R(0)])

splines_A(tt) ==
    << seq([j \in 1..6 |-> p(tt[1], unit(6, j))]),
       <<R(0)>> \o [j \in 1..5 |-> dp(tt[1], unit(5, j))],
       <<R(0), R(0)>> \o [j \in 1..4 |-> ddp(tt[1], unit(4, j))],
       seq([j \in 1..6 |-> p(tt[2], unit(6, j))]),
       <<R(0)>> \o [j \in 1..5 |-> dp(tt[2], unit(5, j))],
       <<R(0), R(0)>> \o [j \in 1..4 |-> ddp(tt[2], unit(4, j))] >>

\* variant: the right-hand side lists acceleration before velocity
splines_B_swapped(init_cond, fin_cond) ==
    <<init_cond[1], init_cond[3], init_cond[2],
      fin_cond[1], fin_cond[3], fin_cond[2]>>

splines_B(init_cond, fin_cond) ==
    <<init_cond[1], init_cond[2], init_cond[3],
      fin_cond[1], fin_cond[2], fin_cond[3]>>

\* np.linalg.inv(A).dot(B) in exact arithmetic: Gauss-Jordan elimination on
\* the augmented rows; NoSolution stands for numpy's LinAlgError
NoSolution == << >>

pivot_rows(M, c) == {r \in c..Len(M) : M[r][c][1] # 0}

swap_rows(M, r1, r2) ==
    seq([r \in 1..Len(M) |->
            IF r = r1 THEN M[r2] ELSE IF r = r2 THEN M[r1] ELSE M[r]])

eliminate(M, c) ==
    LET prow == seq([j \in 1..Len(M[c]) |-> RDiv(M[c][j], M[c][c])])
    IN  seq([r \in 1..Len(M) |->
                IF r = c THEN prow
                ELSE seq([j \in 1..Len(M[r]) |->
                             RSub(M[r][j], RMul(M[r][c], prow[j]))])])

RECURSIVE gauss_jordan(_, _)

gauss_jordan(M, c) ==
    IF c > Len(M) THEN seq([r \in 1..Len(M) |-> M[r][Len(M) + 1]])
    ELSE IF pivot_rows(M, c) = {} THEN NoSolution
    ELSE LET r0 == CHOOSE r \in pivot_rows(M, c) :
                       \A q \in pivot_rows(M, c) : r <= q
         IN  gauss_jordan(eliminate(swap_rows(M, c, r0), c), c + 1)

inv_dot(A, B) == gauss_jordan(seq([r \in 1..Len(A) |-> A[r] \o <<B[r]>>]), 1)

splines(tt, init_cond, fin_cond) ==
    inv_dot(splines_A(tt), splines_B(init_cond, fin_cond))

\* ------------------------------------------- constructors, any arguments
\* For N <= 0 the knot loop of __init__ does not run and the problem handed
\* to cs.nlpsol is empty; whether the library accepts it is not decided by
\* this repository, so both outcomes are possible.
ConstructEmptyRefused ==
    /\ pc = "new" /\ N <= 0
    /\ err' = "nlpsol"
    /\ pc' = "raised"
    /\ UNCHANGED <<post_vars, ctor_vars, nlp, x0, call_vars, k, list_vars,
                   out_vars>>

\* a planner about to be constructed with arbitrary numbers
InitCtor ==
    /\ cls \in {"Walking", "Gait"}
    /\ N \in (-1)..MaxN /\ dt \in {-1, 0, 1, 2} /\ mass \in {-95, 0, 95}
    /\ pc = "new"
    /\ nlp = [x |-> << >>, g |-> << >>, p |-> << >>]
    /\ x0 = <<11, 0, -2, 0, 0, 0, 0, 0, 0>> /\ x_init = x0
    /\ contacts = foot_contacts
    /\ swing_id = 0 /\ swing_tgt = <<45, 35, -77>> /\ swing_t = <<0, 0>>
    /\ min_f = 50 /\ swing_clearance = 0
    /\ k = 0
    /\ Xl = << >> /\ Xu = << >> /\ Ul = << >> /\ Uu = << >>
    /\ Fl = << >> /\ Fu = << >> /\ gl = << >> /\ gu = << >> /\ P = << >>
    /\ nlpargs = NoValue
    /\ status = "" /\ sol = << >> /\ result = NoValue /\ err = ""
    /\ PostIdle

NextCtor == WalkingConstruct \/ GaitConstruct \/ ConstructEmptyRefused

SpecCtor == InitCtor /\ [][NextCtor]_vars

\* C11: constructing a Walking or Gait planner with N <= 0, dt <= 0 or
\* mass <= 0 is rejected with an input-validation error before any decision
\* variable, cost or constraint is built.
C11_BadCtorRejected ==
    (N <= 0 \/ dt <= 0 \/ mass <= 0) =>
        /\ pc # "built"
        /\ nlp.x = << >> /\ nlp.g = << >>
        /\ pc = "raised" => err = "ValueError"

\* ------------------------------------------- Walking.splines, any call
MaxSplT == 2

\* the planner state around a call of splines: nothing but the call matters
InitSpline ==
    /\ cls = "Walking" /\ N = 1 /\ dt = 1 /\ mass = 95
    /\ pc = "spl_call"
    /\ nlp = [x |-> << >>, g |-> << >>, p |-> << >>]
    /\ x0 = <<11, 0, -2, 0, 0, 0, 0, 0, 0>> /\ x_init = x0
    /\ contacts = foot_contacts
    /\ swing_id = 0 /\ swing_tgt = <<45, 35, -77>> /\ swing_t = <<0, 0>>
    /\ min_f = 50 /\ swing_clearance = 0
    /\ k = 0
    /\ Xl = << >> /\ Xu = << >> /\ Ul = << >> /\ Uu = << >>
    /\ Fl = << >> /\ Fu = << >> /\ gl = << >> /\ gu = << >> /\ P = << >>
    /\ nlpargs = NoValue
    /\ status = "" /\ sol = << >> /\ result = NoValue /\ err = ""
    /\ resol = <<1, 1>> /\ solution_in = NoValue /\ ii = 0
    /\ x_old = NoValue /\ x_all = << >> /\ interp = NoValue
    /\ calls = << >>
    /\ LET times == {R(t) : t \in 0..MaxSplT}
           conds == {<<R(pos), R(vel), R(acc)>> :
                        pos \in {-1, 2}, vel \in {0, 1}, acc \in {-1, 0}}
       IN  \E t0 \in times, t1 \in times, ic \in conds, fc \in conds :
          spl = [dt |-> <<t0, t1>>, init_cond |-> ic, fin_cond |-> fc]

\* splines returns the coefficients
SplinesReturn ==
    /\ pc = "spl_call"
    /\ splines(spl.dt, spl.init_cond, spl.fin_cond) # NoSolution
    /\ result' = splines(spl.dt, spl.init_cond, spl.fin_cond)
    /\ pc' = "spl_done"
    /\ UNCHANGED <<post_vars, ctor_vars, nlp, x0, call_vars, k, list_vars,
                   nlpargs, status, sol, err>>

\* np.linalg.inv raises on a singular A
SplinesRaise ==
    /\ pc = "spl_call"
    /\ splines(spl.dt, spl.init_cond, spl.fin_cond) = NoSolution
    /\ err' = "LinAlgError"
    /\ pc' = "raised"
    /\ UNCHANGED <<post_vars, ctor_vars, nlp, x0, call_vars, k, list_vars,
                   nlpargs, status, sol, result>>

NextSpline == SplinesReturn \/ SplinesRaise

SpecSpline == InitSpline /\ [][NextSpline]_vars

\* C12: Walking.splines called with a time pair t1 <= t0 ends in an
\* input-validation error and never returns coefficients.
C12_BadPairRejected ==
    (pc \in {"spl_done", "raised"} /\ spl # NoValue /\ RLe(spl.dt[2], spl.dt[1])) =>
        pc = "raised" /\ err = "ValueError" /\ result = NoValue

\* C20: for every time pair t0 < t1 and boundary triples (p0, v0, a0),
\* (p1, v1, a1), the quintic returned by splines takes position, velocity
\* and acceleration p0, v0, a0 at t0 and p1, v1, a1 at t1.
C20_BoundaryConditions ==
    (pc = "spl_done" /\ RLt(spl.dt[1], spl.dt[2])) =>
        \A e \in 1..2 :
            LET cond == IF e = 1 THEN spl.init_cond ELSE spl.fin_cond
            IN  /\ p(spl.dt[e], result) = cond[1]
                /\ dp(spl.dt[e], Tail(result)) = cond[2]
                /\ ddp(spl.dt[e], Tail(Tail(result))) = cond[3]

C20_Witness ==
    /\ pc = "spl_done" /\ RLt(spl.dt[1], spl.dt[2])
    /\ spl.dt[1] # R(0)
    /\ spl.init_cond # spl.fin_cond
    /\ spl.init_cond[2] # spl.init_cond[3]
    /\ \E i \in 4..6 : result[i] # R(0)

\* ============================================== trajectory densification
\* variant: the jerk term of the position enters with 1/2 instead of 1/6
integrator_half(x, u, delta_t) ==
    seq([i \in 1..dimx |->
        IF i <= dimc
        THEN RSum(<< x[i], RMul(x[i + dimc], delta_t),
                     RMul(<<1, 2>>, RMul(x[i + 2 * dimc], RPow(delta_t, 2))),
                     RMul(<<1, 2>>, RMul(u[i], RPow(delta_t, 3))) >>)
        ELSE IF i <= 2 * dimc
        THEN RSum(<< x[i], RMul(x[i + dimc], delta_t),
                     RMul(<<1, 2>>, RMul(u[i - dimc], RPow(delta_t, 2))) >>)
        ELSE RAdd(x[i], RMul(u[i - 2 * dimc], delta_t))])

\* self._integrator: xf = vertcat(position, velocity, acceleration)
integrator(x, u, delta_t) ==
    seq([i \in 1..dimx |->
        IF i <= dimc
        THEN RSum(<< x[i], RMul(x[i + dimc], delta_t),
                     RMul(<<1, 2>>, RMul(x[i + 2 * dimc], RPow(delta_t, 2))),
                     RMul(<<1, 6>>, RMul(u[i], RPow(delta_t, 3))) >>)
        ELSE IF i <= 2 * dimc
        THEN RSum(<< x[i], RMul(x[i + dimc], delta_t),
                     RMul(<<1, 2>>, RMul(u[i - dimc], RPow(delta_t, 2))) >>)
        ELSE RAdd(x[i], RMul(u[i - 2 * dimc], delta_t))])

\* the values a decision vector v gives to knot kk's state or control block
block_at(v, kind, kk) ==
    seq([i \in 1..(IF kind = "x" THEN dimx ELSE dimu) |->
            R(At(v, index_in(nlp.x, knot_var(kind, kk, i - 1))))])

\* the dynamics rows of knot kk > 0 evaluated at v:
\* integrator(x0=x_old, u=u_old, delta_t=dt)['xf'] - x_k
dyn_k(v, kk) ==
    LET xf == integrator(block_at(v, "x", kk - 1), block_at(v, "u", kk - 1), R(dt))
    IN  [i \in 1..dimx |-> RSub(xf[i], block_at(v, "x", kk)[i])]

\* A decision vector that satisfies the dynamics rows: the states are rolled
\* out of x0 with the integrator under jerks that keep every value integral.
jerk_of(kk) == <<6 * (kk + 1), -6, 0>>

rats(v) == seq([i \in 1..Len(v) |-> R(v[i])])

RECURSIVE rollout(_)

rollout(kk) ==
    IF kk = 0 THEN rats(x0)
    ELSE integrator(rollout(kk - 1), rats(jerk_of(kk - 1)), R(dt))

consistent_vector(n) ==
    vertcat([j \in 1..n |-> [i \in 1..dimx |-> rollout(j - 1)[i][1]]])
    \o vertcat([j \in 1..n |-> jerk_of(j - 1)])
    \o solver_vector(3, n * ncontacts * dimf)

\* the solver returns a converged, dynamically consistent vector
CallSolverConsistent ==
    /\ pc = "ready"
    /\ \A j \in 1..N : \A i \in 1..dimx : rollout(j - 1)[i][2] = 1
    /\ status' = "Solve_Succeeded"
    /\ sol' = consistent_vector(N)
    /\ calls' = Append(calls, nlpargs)
    /\ pc' = "solved"
    /\ UNCHANGED <<interp_vars, ctor_vars, nlp, x0, call_vars, k, list_vars,
                   nlpargs, result, err>>

\* the swing arguments __main__ passes on to interpolate
sw_args(clear) ==
    [ sw_curr |-> IF cls = "Walking" THEN At(contacts, swing_id)
                  ELSE [i \in 1..Len(swing_id) |-> At(contacts, swing_id[i])],
      sw_tgt |-> swing_tgt, clearance |-> clear, sw_t |-> swing_t ]

\* variant: the densification starts from the solved state of knot 1
first_state_next(solution) ==
    IF cls = "Walking" THEN rats(solution.x[2])
    ELSE rats(SubSeq(solution.x, 10, 18))

\* solution['x'][0:9, 0] / solution['x'][0:9]
first_state(solution) ==
    IF cls = "Walking" THEN rats(solution.x[1])
    ELSE rats(SubSeq(solution.x, 1, 9))

\* interpolate is entered: delta_t, self._n, x_old and the empty x_all
InterpolateBegin ==
    /\ pc = "returned"
    /\ \E r \in { <<1, 1>>, <<3, 2>>, <<2, 1>> }, clear \in ClearanceSet :
          /\ resol' = r
          /\ interp' = [ args |-> sw_args(clear),
                         delta_t |-> RDiv(R(1), r),
                         n |-> RInt(RMul(R(dt), r)) ]
    /\ solution_in' = result
    /\ x_old' = first_state(result)
    /\ x_all' = << >>
    /\ ii' = 0
    /\ pc' = "interp_x"
    /\ UNCHANGED <<ctor_vars, nlp, x0, call_vars, k, list_vars, out_vars, err,
                   spl, calls>>

\* solution['u'][0:3, ii] / solution['u'][dimu*ii : dimu*(ii+1)]
u_old_of(solution, kk) ==
    IF cls = "Walking" THEN rats(solution.u[kk + 1])
    ELSE rats(SubSeq(solution.u, dimu * kk + 1, dimu * (kk + 1)))

\* variant: the held control is the one of the following knot
u_held_next(solution, kk) ==
    u_old_of(solution, IF kk + 1 < N THEN kk + 1 ELSE kk)

\* the control held while the samples of knot kk are produced
u_held(solution, kk) == u_old_of(solution, kk)

RECURSIVE densify(_, _, _, _)

\* the inner loop: j sub-steps from x; returns <<samples appended, last x_old>>
densify(x, u, j, h) ==
    IF j <= 0 THEN << << >>, x >>
    ELSE LET rest == densify(integrator(x, u, h), u, j - 1, h)
         IN  << <<x>> \o rest[1], rest[2] >>

\* one pass of the loop over knots, both classes
InterpKnot ==
    /\ pc = "interp_x" /\ ii < N
    /\ LET d == densify(x_old, u_held(solution_in, ii), interp.n, interp.delta_t)
       IN  /\ x_all' = x_all \o d[1]
           /\ x_old' = d[2]
    /\ ii' = ii + 1
    /\ UNCHANGED <<ctor_vars, nlp, x0, call_vars, k, list_vars, out_vars, err,
                   resol, solution_in, interp, spl, calls, pc>>

\* self._time: the knot times
knot_times == [i \in 1..N |-> R((i - 1) * dt)]

\* solution['F'][i] / solution['F'][i::dimf_tot]: component i over the knots
force_row(solution, i) ==
    IF cls = "Walking" THEN [j \in 1..N |-> R(solution.F[j][i + 1])]
    ELSE [j \in 1..N |-> R(solution.F[i + dimf_tot * (j - 1) + 1])]

\* cs.interpolant('X_CONT', 'linear', [grid], vals)(t): the segment is the
\* one holding t, the first or the last one for a t outside the grid, and the
\* value is taken on that segment's line
linear(grid, vals, t) ==
    LET below == {i \in 1..(Len(grid) - 1) : RLe(grid[i], t)}
        seg == IF below = {} THEN 1
               ELSE CHOOSE i \in below : \A q \in below : q <= i
        alpha == RDiv(RSub(t, grid[seg]), RSub(grid[seg + 1], grid[seg]))
    IN  RAdd(vals[seg], RMul(alpha, RSub(vals[seg + 1], vals[seg])))

\* the loop is over: int_state and self._t are filled, then the forces are
\* interpolated at the sample times
InterpForces ==
    /\ pc = "interp_x" /\ ii >= N
    /\ LET \* self._t: the sample times
           t == [j \in 1..(N * interp.n) |-> RMul(R(j - 1), interp.delta_t)]
       IN  interp' = [ args |-> interp.args, delta_t |-> interp.delta_t,
                       n |-> interp.n,
                       t |-> t,
                       x |-> [i \in 1..dimx |->
                                 [j \in 1..(N * interp.n) |-> x_all[j][i]]],
                       f |-> [i \in 1..dimf_tot |->
                                 [j \in 1..Len(t) |->
                                     linear(knot_times,
                                            force_row(solution_in, i - 1),
                                            t[j])]] ]
    /\ pc' = "interp_sw"
    /\ UNCHANGED <<ctor_vars, nlp, x0, call_vars, k, list_vars, out_vars, err,
                   resol, solution_in, ii, x_old, x_all, spl, calls>>

\* ------------------------------------------------- swing_trj_triangle
\* variant: the clearance is counted from the lower of the two heights
max_point_low(sw_curr, sw_tgt, clear) ==
    << RMul(<<1, 2>>, R(sw_curr[1] + sw_tgt[1])),
       RMul(<<1, 2>>, R(sw_curr[2] + sw_tgt[2])),
       IF sw_curr[3] >= sw_tgt[3] THEN R(sw_tgt[3] + clear)
       ELSE R(sw_curr[3] + clear) >>

\* intermediate point, clearance counted from the highest point
max_point(sw_curr, sw_tgt, clear) ==
    << RMul(<<1, 2>>, R(sw_curr[1] + sw_tgt[1])),
       RMul(<<1, 2>>, R(sw_curr[2] + sw_tgt[2])),
       IF sw_curr[3] >= sw_tgt[3] THEN R(sw_curr[3] + clear)
       ELSE R(sw_tgt[3] + clear) >>

\* np.linspace(a, b, num)
linspace(a, b, num) ==
    IF num <= 0 THEN << >>
    ELSE IF num = 1 THEN <<a>>
    ELSE seq([i \in 1..num |->
                 IF i = num THEN b
                 ELSE RAdd(a, RMul(R(i - 1), RDiv(RSub(b, a), R(num - 1))))])

\* [v] * count
repeat(v, count) ==
    IF count <= 0 THEN << >> ELSE seq([i \in 1..count |-> v])

\* number of samples of each half of the swing
swing_half_n(sw_t, rs) ==
    RInt(RMul(<<1, 2>>, RMul(rs, R(sw_t[2] - sw_t[1]))))

swing_trj_triangle(sw_curr, sw_tgt, clear, sw_t, total_t, rs) ==
    LET mp == max_point(sw_curr, sw_tgt, clear)
        vel == seq([j \in 1..2 |-> RDiv(R(3 * (sw_tgt[j] - sw_curr[j])),
                                        R(sw_t[2] - sw_t[1]))])
        cond1 == seq([j \in 1..3 |-> <<R(sw_curr[j]), R(0), R(0)>>])
        cond2 == seq([j \in 1..3 |-> IF j <= 2 THEN <<mp[j], vel[j], R(0)>>
                                     ELSE <<mp[j], R(0), R(-20)>>])   \* apex acceleration along z: -0.2
        cond3 == seq([j \in 1..3 |-> <<R(sw_tgt[j]), R(0), R(0)>>])
        mid == RMul(<<1, 2>>, R(sw_t[1] + sw_t[2]))
        sw_t1 == <<R(sw_t[1]), mid>>
        sw_t2 == <<mid, R(sw_t[2])>>
        c1 == seq([j \in 1..3 |-> splines(sw_t1, cond1[j], cond2[j])])
        c2 == seq([j \in 1..3 |-> splines(sw_t2, cond2[j], cond3[j])])
        num == swing_half_n(sw_t, rs)
        t1 == linspace(sw_t1[1], sw_t1[2], num)
        t2 == linspace(sw_t2[1], sw_t2[2], num)
        sw_n1 == RInt(RMul(rs, R(sw_t[1] - total_t[1])))
        sw_n2 == RInt(RMul(rs, R(total_t[2] - sw_t[2])))
        path == seq([j \in 1..3 |->
                        repeat(R(sw_curr[j]), sw_n1)
                        \o [i \in 1..Len(t1) |-> p(t1[i], c1[j])]
                        \o [i \in 1..Len(t2) |-> p(t2[i], c2[j])]
                        \o repeat(R(sw_tgt[j]), sw_n2)])
    IN  [ x |-> path[1], y |-> path[2], z |-> path[3],
          s |-> [segments |-> Max2(Len(path[1]) - 1, 0)] ]

\* interpol.swing_trj_triangle, the Gait planner's copy of the same method
interpol_swing_trj_triangle(sw_curr, sw_tgt, clear, sw_t, total_t, rs) ==
    swing_trj_triangle(sw_curr, sw_tgt, clear, sw_t, total_t, rs)

\* the swing path(s) are built and interpolate returns its dictionary
InterpSwing ==
    /\ pc = "interp_sw"
    /\ LET a == interp.args
           t_tot == <<0, N * dt>>
           sw == IF cls = "Walking"
                 THEN swing_trj_triangle(a.sw_curr, a.sw_tgt, a.clearance,
                                         a.sw_t, t_tot, resol)
                 ELSE [i \in 1..Len(a.sw_curr) |->
                          interpol_swing_trj_triangle(a.sw_curr[i], a.sw_tgt[i],
                                                      a.clearance, a.sw_t[i],
                                                      t_tot, resol)]
       IN  interp' = [ args |-> a, delta_t |-> interp.delta_t, n |-> interp.n,
                       t |-> interp.t, x |-> interp.x, f |-> interp.f,
                       sw |-> sw ]
    /\ pc' = "interpolated"
    /\ UNCHANGED <<ctor_vars, nlp, x0, call_vars, k, list_vars, out_vars, err,
                   resol, solution_in, ii, x_old, x_all, spl, calls>>

\* --------------------------------------------- claims on densification
solved == pc \in {"solved", "returned", "interp_x", "interp_sw", "interpolated"}

\* solved state of knot kk in the solution handed to interpolate
x_of(solution, kk) ==
    IF cls = "Walking" THEN rats(solution.x[kk + 1])
    ELSE rats(SubSeq(solution.x, dimx * kk + 1, dimx * (kk + 1)))

\* C14: the integrator maps (c, dc, ddc), jerk u and step h to
\* c + dc*h + 1/2*ddc*h^2 + 1/6*u*h^3, dc + ddc*h + 1/2*u*h^2, ddc + u*h on
\* each axis, in both planners, and the dynamics rows of knot k > 0 are
\* integrator(x_{k-1}, u_{k-1}, dt) - x_k.
C14_TripleIntegrator ==
    LET sq(h) == RMul(h, h)
        cube(h) == RMul(h, RMul(h, h))
        pos(x, u, h, a) ==
            RAdd(RAdd(x[a], RMul(x[a + 3], h)),
                 RAdd(RMul(<<1, 2>>, RMul(x[a + 6], sq(h))),
                      RMul(<<1, 6>>, RMul(u[a], cube(h)))))
        vel(x, u, h, a) ==
            RAdd(RAdd(x[a + 3], RMul(x[a + 6], h)),
                 RMul(<<1, 2>>, RMul(u[a], sq(h))))
        acc(x, u, h, a) == RAdd(x[a + 6], RMul(u[a], h))
    IN  /\ solved =>
            \A kk \in 1..(N - 1) : \A a \in 1..dimc :
                LET x == block_at(sol, "x", kk - 1)
                    u == block_at(sol, "u", kk - 1)
                    y == block_at(sol, "x", kk)
                    g == dyn_k(sol, kk)
                IN  /\ g[a] = RSub(pos(x, u, R(dt), a), y[a])
                    /\ g[a + 3] = RSub(vel(x, u, R(dt), a), y[a + 3])
                    /\ g[a + 6] = RSub(acc(x, u, R(dt), a), y[a + 6])
        /\ (pc = "interp_x" /\ ii < N) =>
            \A a \in 1..dimc :
                LET u == u_old_of(solution_in, ii)
                    h == interp.delta_t
                    xf == integrator(x_old, u, h)
                IN  /\ xf[a] = pos(x_old, u, h, a)
                    /\ xf[a + 3] = vel(x_old, u, h, a)
                    /\ xf[a + 6] = acc(x_old, u, h, a)

C14_Witness ==
    /\ pc = "interp_x" /\ ii = 1 /\ N >= 3 /\ cls = "Gait"
    /\ interp.delta_t = <<2, 3>>
    /\ \E a \in 1..dimc : u_old_of(solution_in, ii)[a] # R(0)
    /\ \E a \in 1..dimx : dyn_k(sol, 2)[a] # R(0)

\* C15: with n = int(dt*resol) sub-steps per knot, consecutive dense samples
\* j, j+1 (0 <= j < N*n - 1) satisfy x[j+1] = integrator(x[j], u_k, 1/resol)
\* with k = j div n.
C15_ConsecutiveSamples ==
    /\ pc \in {"interp_x", "interp_sw", "interpolated"} =>
        \A j \in 0..(Len(x_all) - 2) :
            At(x_all, j + 1) =
                integrator(At(x_all, j), u_old_of(solution_in, j \div interp.n),
                           RDiv(R(1), resol))
    /\ pc = "interpolated" =>
        /\ interp.n = RInt(RMul(R(dt), resol))
        /\ \A i \in 1..dimx : Len(interp.x[i]) = N * interp.n
        /\ \A j \in 0..(N * interp.n - 2) :
              [i \in 1..dimx |-> At(interp.x[i], j + 1)] =
                  integrator([i \in 1..dimx |-> At(interp.x[i], j)],
                             u_old_of(solution_in, j \div interp.n),
                             RDiv(R(1), resol))

C15_Witness ==
    /\ pc = "interpolated" /\ N >= 3 /\ interp.n >= 2
    /\ Len(interp.x[1]) = N * interp.n
    /\ u_old_of(solution_in, 0) # u_old_of(solution_in, 1)

\* C16 as stated: for every knot k the dense sample k*n equals the solved
\* state x_k, for any solution vector and any resolution.
C16_Original ==
    (pc \in {"interp_sw", "interpolated"}) =>
        \A kk \in Knots : At(x_all, kk * interp.n) = x_of(solution_in, kk)

\* C16: the dense sample 0 is the solved x_0, and the dense sample k*n is
\* the solved x_k whenever the solution satisfies the dynamics rows of the
\* knots 1..k and the n sub-steps span exactly dt.
C16_KnotSamples ==
    (pc \in {"interp_sw", "interpolated"}) =>
        /\ At(x_all, 0) = x_of(solution_in, 0)
        /\ \A kk \in Knots :
              ( /\ RMul(R(interp.n), interp.delta_t) = R(dt)
                /\ \A j \in 1..kk : \A i \in 1..dimx : dyn_k(sol, j)[i] = R(0) )
              => At(x_all, kk * interp.n) = x_of(solution_in, kk)

C16_Witness ==
    /\ pc = "interpolated" /\ N >= 3 /\ interp.n >= 2
    /\ RMul(R(interp.n), interp.delta_t) = R(dt)
    /\ \A j \in 1..(N - 1) : \A i \in 1..dimx : dyn_k(sol, j)[i] = R(0)
    /\ At(x_all, 2 * interp.n) = x_of(solution_in, 2)
    /\ x_of(solution_in, 2) # x_of(solution_in, 0)

\* C17: every force sample time i/resol (0 <= i < N*int(dt*resol)) lies
\* within the span [0, (N-1)*dt] of the knot times, so every dense force
\* sample lies between the solved values of the two knots bracketing its
\* time and none is extrapolated beyond the last knot.
C17_ForceSamplesInSpan ==
    (pc \in {"interp_sw", "interpolated"}) =>
        \A j \in 1..Len(interp.t) :
            /\ RLe(R(0), interp.t[j])
            /\ RLe(interp.t[j], R((N - 1) * dt))
            /\ \A i \in 1..dimf_tot :
                  \E kk \in 1..(N - 1) :
                      LET a == force_row(solution_in, i - 1)[kk]
                          b == force_row(solution_in, i - 1)[kk + 1]
                          v == interp.f[i][j]
                      IN  /\ RLe(knot_times[kk], interp.t[j])
                          /\ RLe(interp.t[j], knot_times[kk + 1])
                          /\ \/ RLe(a, v) /\ RLe(v, b)
                             \/ RLe(b, v) /\ RLe(v, a)

\* ------------------------------------------------ claims on the swing
\* sample i (0-based) of the path returned for the Walking planner's swing
sw_sample(i) == <<At(interp.sw.x, i), At(interp.sw.y, i), At(interp.sw.z, i)>>

\* number of samples held at the current position before the swing
sw_n1_of(a) == Max2(RInt(RMul(resol, R(a.sw_t[1]))), 0)

\* C18: in swing_trj_triangle the apex has x and y equal to the mean of the
\* current and target x and y, and z equal to max(current_z, target_z) +
\* clearance, also when current_z = target_z.
C18_Apex ==
    (pc = "interpolated" /\ cls = "Walking") =>
        LET a == interp.args
            num == swing_half_n(a.sw_t, resol)
            top == IF a.sw_curr[3] > a.sw_tgt[3] THEN a.sw_curr[3]
                   ELSE a.sw_tgt[3]
            apex == << Rat(a.sw_curr[1] + a.sw_tgt[1], 2),
                       Rat(a.sw_curr[2] + a.sw_tgt[2], 2),
                       R(top + a.clearance) >>
        IN  /\ max_point(a.sw_curr, a.sw_tgt, a.clearance) = apex
            /\ num >= 1 => sw_sample(sw_n1_of(a) + num) = apex
            /\ num >= 2 => sw_sample(sw_n1_of(a) + num - 1) = apex

C18_Witness ==
    /\ pc = "interpolated" /\ cls = "Walking"
    /\ swing_half_n(interp.args.sw_t, resol) >= 2
    /\ interp.args.sw_curr[3] = interp.args.sw_tgt[3]
    /\ interp.args.clearance > 0
    /\ sw_sample(sw_n1_of(interp.args) + swing_half_n(interp.args.sw_t, resol))[3]
           = R(interp.args.sw_curr[3] + interp.args.clearance)

\* C19: in the sampled path of swing_trj_triangle (sample i at time i/resol)
\* every sample before t0 is the current position, every sample after t1 is
\* the target position, the first sample of the swing segment is the current
\* position and its last sample is the target position.
C19_SwingEndpoints ==
    (pc = "interpolated" /\ cls = "Walking") =>
        LET a == interp.args
            num == swing_half_n(a.sw_t, resol)
            n1 == sw_n1_of(a)
            time(i) == RDiv(R(i), resol)
        IN  /\ \A i \in 0..(Len(interp.sw.x) - 1) :
                  /\ RLt(time(i), R(a.sw_t[1])) => sw_sample(i) = rats(a.sw_curr)
                  /\ RLt(R(a.sw_t[2]), time(i)) => sw_sample(i) = rats(a.sw_tgt)
            /\ num >= 1 =>
                  /\ sw_sample(n1) = rats(a.sw_curr)
                  /\ sw_sample(n1 + 2 * num - 1) = rats(a.sw_tgt)

\* C26: the swing path returned by interpolate has exactly as many samples
\* per coordinate as the time vector 't' and the dense state and force
\* trajectories, for every swing window [t0, t1] inside the horizon and every
\* resolution: int(resol*t0) + 2*int(0.5*resol*(t1-t0)) + int(resol*(N*dt-t1))
\* = N*int(dt*resol).
C26_SwingPathLength ==
    (pc = "interpolated" /\ cls = "Walking"
        /\ 0 <= interp.args.sw_t[1] /\ interp.args.sw_t[1] < interp.args.sw_t[2]
        /\ interp.args.sw_t[2] <= N * dt) =>
        LET a == interp.args
            count == RInt(RMul(resol, R(a.sw_t[1])))
                     + 2 * swing_half_n(a.sw_t, resol)
                     + RInt(RMul(resol, R(N * dt - a.sw_t[2])))
        IN  /\ Len(interp.sw.x) = count
            /\ count = N * RInt(RMul(R(dt), resol))
            /\ Len(interp.t) = N * RInt(RMul(R(dt), resol))
            /\ \A c \in {interp.sw.x, interp.sw.y, interp.sw.z} :
                  /\ Len(c) = Len(interp.t)
                  /\ \A i \in 1..dimx : Len(c) = Len(interp.x[i])
                  /\ \A i \in 1..dimf_tot : Len(c) = Len(interp.f[i])

\* ------------------------------------------ solve followed by interpolate
MaxSwT == 3

InterpWindows == {w \in (0..MaxSwT) \X (0..MaxSwT) : w[1] < w[2]}

\* targets lower than, higher than and level with the current contact
InterpOffsetSet == OffsetSet \cup { <<10, 0, 0>> }

InitInterp ==
    /\ N \in 2..MaxN
    /\ \/ /\ cls = "Walking"
          /\ swing_id = 0
          /\ swing_t \in InterpWindows
          /\ \E off \in InterpOffsetSet :
                swing_tgt = vadd(At(foot_contacts, 0), off)
          /\ swing_clearance = 0
       \/ /\ cls = "Gait"
          /\ swing_id = <<0>>
          /\ \E w \in InterpWindows : swing_t = <<w>>
          /\ \E off \in InterpOffsetSet :
                swing_tgt = << vadd(At(foot_contacts, 0), off) >>
          /\ swing_clearance \in ClearanceSet
    /\ pc = "new"
    /\ nlp = [x |-> << >>, g |-> << >>, p |-> << >>]
    /\ mass = 95
    /\ dt \in DtSet
    /\ x0 = <<11, 0, -2, 0, 0, 0, 0, 0, 0>>
    /\ x_init = x0
    /\ contacts = foot_contacts
    /\ min_f = 50
    /\ k = 0
    /\ Xl = << >> /\ Xu = << >> /\ Ul = << >> /\ Uu = << >>
    /\ Fl = << >> /\ Fu = << >> /\ gl = << >> /\ gu = << >> /\ P = << >>
    /\ nlpargs = NoValue
    /\ status = "" /\ sol = << >> /\ result = NoValue /\ err = ""
    /\ PostIdle

\* ------------------------------------------- the Gait clearance position
\* C24: in Gait.solve, for every scheduled step i the clearance time is the
\* midpoint (lift_i + touch_i)/2 of its window, and the clearance position
\* handed to the contact-parameter generator has height
\* max(current contact z, target z) + swing_clearance of leg swing_id[i] and
\* is the apex of the swing: horizontally midway between the current contact
\* and the target.
C24_ClearanceIsApex ==
    (cls = "Gait" /\ pc \in {"loop", "final", "ready"} /\ Len(P) > 0) =>
        \A i \in 1..step_num :
            LET cur == At(contacts, swing_id[i])
                tgt == swing_tgt[i]
                pos == clearance_swing_position[i]
            IN  /\ RMul(R(2), clearance_times[i]) = R(swing_t[i][1] + swing_t[i][2])
                /\ pos[3] = Max2(cur[3], tgt[3]) + swing_clearance
                /\ 2 * pos[1] = cur[1] + tgt[1]
                /\ 2 * pos[2] = cur[2] + tgt[2]

\* ------------------------------------- Walking.solve, windows of any length
\* the Walking planner called with a window 0 <= lift < touch inside the horizon
InitWindow ==
    /\ cls = "Walking"
    /\ N \in 1..MaxN
    \* with a knot spacing of 3 ticks a window can open and close between two knots
    /\ dt \in {1, 2, 3}
    /\ swing_id \in {0, 3}
    /\ \E off \in OffsetSet :
          swing_tgt = vadd(At(foot_contacts, swing_id), off)
    /\ swing_t \in {w \in Windows : w[1] < w[2] /\ w[2] <= N * dt}
    /\ swing_clearance = 0
    /\ pc = "new"
    /\ nlp = [x |-> << >>, g |-> << >>, p |-> << >>]
    /\ mass = 95
    /\ x0 \in X0Set
    /\ x_init = x0
    /\ contacts = foot_contacts
    /\ min_f \in MinFSet
    /\ k = 0
    /\ Xl = << >> /\ Xu = << >> /\ Ul = << >> /\ Uu = << >>
    /\ Fl = << >> /\ Fu = << >> /\ gl = << >> /\ gu = << >> /\ P = << >>
    /\ nlpargs = NoValue
    /\ status = "" /\ sol = << >> /\ result = NoValue /\ err = ""
    /\ PostIdle

NextWindow ==
    \/ WalkingConstruct
    \/ WalkingSolveBegin
    \/ WalkingKnot
    \/ WalkingFinal
    \/ CallSolver
    \/ WalkingReturn

SpecWindow == InitWindow /\ [][NextWindow]_vars

\* C25: in Walking.solve, for every window 0 <= lift < touch inside the
\* horizon, the swing leg's contact parameter never jumps from the current
\* position to the target between two consecutive knots that both carry load:
\* if knot k-1 has the current position and knot k has the target, the swing
\* leg's force is pinned to zero at knot k.
C25_NoJumpUnderLoad ==
    (cls = "Walking" /\ 0 <= swing_t[1] /\ swing_t[1] < swing_t[2]
        /\ swing_t[2] <= N * dt) =>
        LET \* the swing leg's block of the list entry of knot kk
            leg_block(lst, kk) ==
                SubSeq(lst[kk + 1], 3 * swing_id + 1, 3 * swing_id + 3)
        IN
        \A kk \in 1..(Len(P) - 1) :
            (/\ leg_block(P, kk - 1) = At(contacts, swing_id)
             /\ leg_block(P, kk) = swing_tgt) =>
                /\ leg_block(Fl, kk) = zeros(dimf)
                /\ leg_block(Fu, kk) = zeros(dimf)

\* ============================================== swing_trj_gaussian: the bell
\* swing windows in tenths of a second, up to MaxGaussT tenths
MaxGaussT == 14

\* mean = 0.48 * (sw_t[0] + sw_t[1])
bell_mean(sw_t) == RMul(Rat(48, 100), RAdd(sw_t[1], sw_t[2]))

\* std = 0.14 * (sw_t[1] - sw_t[0])
bell_std(sw_t) == RMul(Rat(14, 100), RSub(sw_t[2], sw_t[1]))

\* the planner state around a call of swing_trj_gaussian
InitGauss ==
    /\ cls = "Walking" /\ N = 1 /\ dt = 1 /\ mass = 95
    /\ pc = "gauss_call"
    /\ nlp = [x |-> << >>, g |-> << >>, p |-> << >>]
    /\ x0 = <<11, 0, -2, 0, 0, 0, 0, 0, 0>> /\ x_init = x0
    /\ contacts = foot_contacts
    /\ swing_id = 0 /\ swing_tgt = <<45, 35, -77>> /\ swing_t = <<0, 0>>
    /\ min_f = 50 /\ swing_clearance = 0
    /\ k = 0
    /\ Xl = << >> /\ Xu = << >> /\ Ul = << >> /\ Uu = << >>
    /\ Fl = << >> /\ Fu = << >> /\ gl = << >> /\ gu = << >> /\ P = << >>
    /\ nlpargs = NoValue
    /\ status = "" /\ sol = << >> /\ result = NoValue /\ err = ""
    /\ resol = <<1, 1>> /\ solution_in = NoValue /\ ii = 0
    /\ x_old = NoValue /\ x_all = << >> /\ interp = NoValue
    /\ calls = << >>
    \* swing windows in tenths of a second
    /\ \E a \in 0..MaxGaussT, b \in 0..MaxGaussT :
          spl = [sw_t |-> <<Rat(a, 10), Rat(b, 10)>>]

\* sw_bellz = norm(loc=mean, scale=std): the bell superimposed on z
SwingTrjGaussianBell ==
    /\ pc = "gauss_call"
    /\ result' = [mean |-> bell_mean(spl.sw_t), std |-> bell_std(spl.sw_t)]
    /\ pc' = "gauss_done"
    /\ UNCHANGED <<post_vars, ctor_vars, nlp, x0, call_vars, k, list_vars,
                   nlpargs, status, sol, err>>

NextGauss == SwingTrjGaussianBell

SpecGauss == InitGauss /\ [][NextGauss]_vars

\* C23: in swing_trj_gaussian the centre of the Gaussian bump is
\* t0 + 0.48*(t1 - t0) and therefore lies inside [t0, t1] for every window
\* 0 <= t0 < t1.
C23_BellCentreInWindow ==
    (pc = "gauss_done" /\ RLe(R(0), spl.sw_t[1]) /\ RLt(spl.sw_t[1], spl.sw_t[2])) =>
        /\ result.mean = RAdd(spl.sw_t[1],
                              RMul(Rat(48, 100), RSub(spl.sw_t[2], spl.sw_t[1])))
        /\ RLe(spl.sw_t[1], result.mean)
        /\ RLe(result.mean, spl.sw_t[2])

\* ================================================ the Newton rows of g
\* gravity = np.array([0, 0, -9.81])
gravity == << R(0), R(0), Rat(-981, 100) >>

\* variant: the weight is added to mass*ddc instead of subtracted
newton_k_plus(v, kk) ==
    seq([a \in 1..dimc |->
        RSub(RAdd(RMul(R(mass), At(v, index_in(nlp.x, walking_var("x", kk, 5 + a)))),
                  RMul(R(mass), gravity[a])),
             RSum([i \in 1..ncontacts |->
                      At(v, index_in(nlp.x, walking_var("f", kk, 3 * (i - 1) + a - 1)))]))])

\* the rows <<"newton", kk, .>> of Walking at a decision vector v of
\* fractions: mass*ddc_k - mass*gravity, then every f_i_k subtracted
newton_k(v, kk) ==
    seq([a \in 1..dimc |->
        RSub(RSub(RMul(R(mass), At(v, index_in(nlp.x, walking_var("x", kk, 5 + a)))),
                  RMul(R(mass), gravity[a])),
             RSum([i \in 1..ncontacts |->
                      At(v, index_in(nlp.x, walking_var("f", kk, 3 * (i - 1) + a - 1)))]))])

\* mass*gravity/4 scaled by num/den
weight_share(num, den) ==
    seq([a \in 1..dimc |-> RMul(Rat(num, den), RMul(R(mass), gravity[a]))])

leg_force(pattern, i) ==
    IF pattern = "with_gravity" THEN weight_share(1, 4)
    ELSE IF pattern = "against_gravity" THEN weight_share(-1, 4)
    ELSE IF pattern = "uneven"
         THEN (IF i <= 2 THEN weight_share(-1, 2) ELSE <<R(0), R(0), R(0)>>)
    ELSE << R(1), R(0), weight_share(-1, 4)[3] >>

\* a decision vector in the layout of Walking: states, controls, forces
newton_point(n, ddc, pattern) ==
    vertcat([j \in 1..n |-> << R(j), R(0), R(-1), R(0), R(1), R(0) >> \o ddc])
    \o vertcat([j \in 1..n |-> << R(0), R(0), R(0) >>])
    \o vertcat([j \in 1..n |-> vertcat([i \in 1..ncontacts |->
                                           leg_force(pattern, i)])])

\* evaluate(point, the Newton rows of self._nlp['g'])
WalkingEvaluateNewton ==
    /\ pc = "built" /\ cls = "Walking"
    /\ \E ddc \in { <<R(0), R(0), R(0)>>, <<R(0), R(0), R(1)>>,
                   <<Rat(1, 2), R(0), R(0)>> },
          pattern \in {"with_gravity", "against_gravity", "uneven", "lateral"} :
          /\ sol' = newton_point(N, ddc, pattern)
          /\ result' = [ newton |-> [j \in 1..N |-> newton_k(sol', j - 1)] ]
    /\ pc' = "evaluated"
    /\ UNCHANGED <<post_vars, ctor_vars, nlp, x0, call_vars, k, list_vars,
                   nlpargs, status, err>>

InitNewton ==
    /\ cls = "Walking"
    /\ N \in 1..MaxN /\ dt \in DtSet /\ mass \in {40, 95}
    /\ pc = "new"
    /\ nlp = [x |-> << >>, g |-> << >>, p |-> << >>]
    /\ x0 = <<11, 0, -2, 0, 0, 0, 0, 0, 0>> /\ x_init = x0
    /\ contacts = foot_contacts
    /\ swing_id = 0 /\ swing_tgt = <<45, 35, -77>> /\ swing_t = <<0, 0>>
    /\ min_f = 50 /\ swing_clearance = 0
    /\ k = 0
    /\ Xl = << >> /\ Xu = << >> /\ Ul = << >> /\ Uu = << >>
    /\ Fl = << >> /\ Fu = << >> /\ gl = << >> /\ gu = << >> /\ P = << >>
    /\ nlpargs = NoValue
    /\ status = "" /\ sol = << >> /\ result = NoValue /\ err = ""
    /\ PostIdle

\* the values the evaluated point gives to ddc_k and to leg i's force
ddc_at(kk) ==
    [a \in 1..dimc |-> At(sol, index_in(nlp.x, walking_var("x", kk, 5 + a)))]

force_at(kk, i) ==
    [a \in 1..dimc |-> At(sol, index_in(nlp.x, walking_var("f", kk, 3 * i + a - 1)))]

\* C21 as stated: with zero CoM acceleration and every contact force equal
\* to mass*gravity/4 the Newton residual is zero.
C21_Original ==
    pc = "evaluated" =>
        \A kk \in Knots :
            ( /\ \A a \in 1..dimc : ddc_at(kk)[a] = R(0)
              /\ \A i \in Legs : \A a \in 1..dimc :
                    force_at(kk, i)[a] = weight_share(1, 4)[a] )
            => \A a \in 1..dimc : result.newton[kk + 1][a] = R(0)

\* C21: with zero CoM acceleration the Newton residual
\* mass*ddc - mass*gravity - sum(f_i) is zero when every contact force is
\* -mass*gravity/4, the upward quarter of the weight; with forces
\* mass*gravity/4 its z component is -2*mass*gravity_z.
C21_NewtonBalance ==
    pc = "evaluated" =>
        \A kk \in Knots :
            (\A a \in 1..dimc : ddc_at(kk)[a] = R(0)) =>
                /\ (\A i \in Legs : \A a \in 1..dimc :
                        force_at(kk, i)[a] = weight_share(-1, 4)[a])
                   => \A a \in 1..dimc : result.newton[kk + 1][a] = R(0)
                /\ (\A i \in Legs : \A a \in 1..dimc :
                        force_at(kk, i)[a] = weight_share(1, 4)[a])
                   => result.newton[kk + 1] =
                         << R(0), R(0), Rat(2 * 981 * mass, 100) >>

C21_Witness ==
    /\ pc = "evaluated" /\ N >= 2 /\ mass = 95
    /\ \A a \in 1..dimc : ddc_at(1)[a] = R(0)
    /\ \A i \in Legs : force_at(1, i) = << R(0), R(0), Rat(981 * 95, 400) >>
    /\ result.newton[2] = << R(0), R(0), R(0) >>

\* ======================================================= repeated solve
MaxCalls == 2

\* the caller calls solve again on the same planner with the same objects
SolveAgain ==
    /\ pc = "returned"
    /\ Len(calls) < MaxCalls
    /\ pc' = "built"
    /\ UNCHANGED <<post_vars, ctor_vars, nlp, x0, call_vars, k, list_vars,
                   out_vars, err>>

InitTwice == (InitWalking({0}) \/ InitGait) /\ min_f = 50

\* C22: calling solve twice on the same planner with the same input objects
\* hands the solver identical variable bounds, constraint bounds, parameters
\* and initial guess both times, for every N >= 1.
C22_SameArguments ==
    \A i \in 1..Len(calls) : \A j \in 1..Len(calls) :
        /\ calls[i].lbx = calls[j].lbx /\ calls[i].ubx = calls[j].ubx
        /\ calls[i].lbg = calls[j].lbg /\ calls[i].ubg = calls[j].ubg
        /\ calls[i].p = calls[j].p /\ calls[i].x0 = calls[j].x0

C22_Witness ==
    /\ Len(calls) = 2 /\ cls = "Walking" /\ N = 1
    /\ x0 # x_init
    /\ calls[2].lbx = calls[1].lbx
    /\ \E i \in 0..2 : At(calls[2].lbx, i) # 0

Next ==
    \/ WalkingConstruct
    \/ WalkingSolveBegin
    \/ WalkingKnot
    \/ WalkingFinal
    \/ GaitConstruct
    \/ GaitSolveBegin
    \/ GaitKnot
    \/ GaitFinal
    \/ CallSolver
    \/ WalkingReturn
    \/ GaitReturn

Spec == Init /\ [][Next]_vars

NextAny == Next \/ WalkingKnotRaise

SpecAny == InitAny /\ [][NextAny]_vars
NextInterp ==
    \/ Next
    \/ CallSolverConsistent
    \/ InterpolateBegin
    \/ InterpKnot
    \/ InterpForces
    \/ InterpSwing

SpecInterp == InitInterp /\ [][NextInterp]_vars
NextNewton == WalkingConstruct \/ WalkingEvaluateNewton

SpecNewton == InitNewton /\ [][NextNewton]_vars
NextTwice == Next \/ SolveAgain

SpecTwice == InitTwice /\ [][NextTwice]_vars
====
